---- MODULE Spec2Model ----
(***************************************************************************)
(* Model of app.py, the thumbnail analyzer: one run of the Streamlit       *)
(* script main(), from setup_credentials() to the last rendered element.   *)
(* The three backends (Google Vision feature detection, the OpenAI vision  *)
(* description, the OpenAI synthesis of the report) are the environment:   *)
(* each call either returns a response drawn from a small set or raises.   *)
(***************************************************************************)
EXTENDS Integers, Sequences, FiniteSets, TLC

VARIABLES
    pc,                 \* position of the script in main()
    vision_client,      \* main: result of setup_credentials()
    api_key,            \* openai.api_key
    uploaded_file,      \* main: result of st.file_uploader
    responses,          \* analyze_with_vision: the five detection responses
    results,            \* analyze_with_vision: the results dict
    vision_results,     \* main: value returned by analyze_with_vision
    openai_description, \* main: value returned by analyze_with_openai
    detailed_prompt,    \* main: value returned by generate_prompt
    page,               \* elements rendered by st.* calls, in order
    calls               \* number of requests each backend has received

vars == <<pc, vision_client, api_key, uploaded_file,
          responses, results, vision_results, openai_description,
          detailed_prompt, page, calls>>

-----------------------------------------------------------------------------
(* Bounds of the environment.                                              *)

\* longest dominant-color list the backend returns
MaxColors == 6
\* most labels, faces, logos and words of text the backend returns
MaxAnn == 1

(* Program constants.                                                      *)

\* dominant_colors.colors[:5]
MaxDominantColors == 5
\* text_annotations[:1]
MaxTextBlocks == 1

-----------------------------------------------------------------------------
(* Python values.                                                          *)

NoneV == [t |-> "None"]
Str(s) == [t |-> "str", s |-> s]
Dict(d) == [t |-> "dict", d |-> d]

\* Python truth value of None, of a str and of a dict
Truthy(v) ==
    CASE v.t = "None" -> FALSE
      [] v.t = "str"  -> v.s # ""
      [] v.t = "dict" -> DOMAIN v.d # {}

Min(a, b) == IF a < b THEN a ELSE b

\* seq[:n]
Slice(seq, n) == SubSeq(seq, 1, Min(n, Len(seq)))

BoundedSeq(S, n) == UNION {[1..k -> S] : k \in 0..n}

-----------------------------------------------------------------------------
(* The feature-detection backend.                                          *)

Detections == <<"label_detection", "text_detection", "face_detection",
                "logo_detection", "image_properties">>

Backends == {Detections[i] : i \in 1..Len(Detections)} \cup {"describe", "synthesize"}

\* position of the script before each detection call
DetectionPc == <<"v_label", "v_text", "v_face", "v_logo", "v_props">>

Unbound == [t |-> "unbound"]
Resp(ann) == [t |-> "resp", ann |-> ann]

\* score levels of a dominant color: two are enough for a list that is not
\* sorted and for a tie
Scores == {1, 2}

\* annotation lists a detection call can return: the dominant colors are a
\* list of scores in backend order, the text is the full text block followed
\* by the annotations of its words, the others are a list of annotations
Annotations(i) ==
    CASE Detections[i] = "image_properties" -> BoundedSeq(Scores, MaxColors)
      [] Detections[i] = "text_detection" ->
            {[k \in 1..n |-> k] : n \in 0..(MaxAnn + 1)}
      [] OTHER -> {[k \in 1..n |-> k] : n \in 0..MaxAnn}

NoResponses == [i \in 1..Len(Detections) |-> Unbound]

Element(kind, body) == [kind |-> kind, body |-> body]

Shown(kind) == \E i \in 1..Len(page) : page[i].kind = kind

ShownWith(kind, body) == \E i \in 1..Len(page) : page[i] = Element(kind, body)

ErrorShown(src) ==
    \E i \in 1..Len(page) : page[i].kind = "error" /\ page[i].body.src = src

-----------------------------------------------------------------------------
Init ==
    /\ pc = "setup"
    /\ vision_client = "unset"
    /\ api_key = "unset"
    /\ uploaded_file = "unset"
    /\ responses = NoResponses
    /\ results = NoneV
    /\ vision_results = NoneV
    /\ openai_description = NoneV
    /\ detailed_prompt = NoneV
    /\ page = <<>>
    /\ calls = [b \in Backends |-> 0]

Locals == <<responses, results>>
MainResults == <<vision_results, openai_description, detailed_prompt>>
Credentials == <<vision_client, api_key>>

-----------------------------------------------------------------------------
(* setup_credentials                                                       *)

\* keys that st.secrets can hold
SecretKeys == {"GOOGLE_CREDENTIALS", "OPENAI_API_KEY"}

\* the OpenAI half of setup_credentials: the key
OpenAIKey(secrets, env_key) ==
    IF "OPENAI_API_KEY" \in secrets \/ env_key THEN "key" ELSE "None"

\* the OpenAI half of setup_credentials: the warning
KeyWarning(secrets, env_key) ==
    IF "OPENAI_API_KEY" \notin secrets /\ ~env_key
        THEN <<Element("warning", [src |-> "openai_key"])>>
        ELSE <<>>

\* the client is constructed, or its construction fails inside the try
setup_credentials_returns ==
    /\ pc = "setup"
    /\ \E secrets \in SUBSET SecretKeys, env_key \in BOOLEAN, ok \in BOOLEAN :
        \* with GOOGLE_CREDENTIALS in the secrets the construction is not
        \* inside a try: only its success returns
        /\ "GOOGLE_CREDENTIALS" \in secrets => ok
        /\ vision_client' = IF ok THEN "client" ELSE "None"
        /\ page' = page
                   \o (IF "GOOGLE_CREDENTIALS" \in secrets THEN <<>>
                       ELSE IF ok THEN <<Element("success", [src |-> "credentials"])>>
                       ELSE <<Element("error", [src |-> "credentials"])>>)
                   \o KeyWarning(secrets, env_key)
        /\ api_key' = OpenAIKey(secrets, env_key)
    /\ pc' = "uploader"
    /\ UNCHANGED <<uploaded_file, Locals, MainResults, calls>>

\* the construction from the secrets raises: nothing catches it
setup_credentials_raises ==
    /\ pc = "setup"
    /\ \E secrets \in SUBSET SecretKeys : "GOOGLE_CREDENTIALS" \in secrets
    /\ pc' = "aborted"
    /\ UNCHANGED <<Credentials, uploaded_file, Locals, MainResults, page, calls>>

-----------------------------------------------------------------------------
(* main, up to the analysis                                                *)

file_uploader ==
    /\ pc = "uploader"
    /\ \E f \in {"None", "image", "corrupt"} :
        /\ uploaded_file' = f
        /\ pc' = IF f = "None" THEN "end" ELSE "open"
    /\ UNCHANGED <<Credentials, Locals, MainResults, page, calls>>

\* Image.open, st.image, image.save
open_image_returns ==
    /\ pc = "open"
    /\ uploaded_file = "image"
    /\ page' = Append(page, Element("image", [src |-> "upload"]))
    /\ pc' = "check_client"
    /\ UNCHANGED <<Credentials, uploaded_file, Locals, MainResults, calls>>

\* Image.open raises on a file that is no image: nothing catches it
open_image_raises ==
    /\ pc = "open"
    /\ uploaded_file = "corrupt"
    /\ pc' = "aborted"
    /\ UNCHANGED <<Credentials, uploaded_file, Locals, MainResults,
                   page, calls>>

\* mutant: only the feature detection is guarded by the client
check_client_description_unguarded ==
    /\ pc = "check_client"
    /\ IF vision_client = "client"
          THEN pc' = "v_label" /\ page' = page
          ELSE /\ page' = Append(page, Element("error", [src |-> "client"]))
               /\ pc' = "openai"
    /\ UNCHANGED <<Credentials, uploaded_file, Locals, MainResults, calls>>

\* if vision_client: ... else: st.error(...)
check_client ==
    /\ pc = "check_client"
    /\ IF vision_client = "client"
          THEN pc' = "v_label" /\ page' = page
          ELSE /\ page' = Append(page, Element("error", [src |-> "client"]))
               /\ pc' = "end"
    /\ UNCHANGED <<Credentials, uploaded_file, Locals, MainResults, calls>>

-----------------------------------------------------------------------------
(* analyze_with_vision                                                     *)

\* keys of the results dict, in the order of the detection calls
Keys == <<"labels", "text", "faces", "logos", "colors">>

\* mutant: every dominant color is kept
DominantColorsUncapped(colors) ==
    [j \in 1..Len(colors) |-> [color |-> j, score |-> colors[j]]]

\* [{"color": ..., "score": color.score, ...} for color in ...colors[:5]]
\* the RGB value of an entry stands for the entry: it is its place in the
\* backend's list
DominantColors(colors) ==
    [j \in 1..Len(Slice(colors, MaxDominantColors)) |->
        [color |-> j, score |-> Slice(colors, MaxDominantColors)[j]]]

\* the list comprehension of one key of the results dict
CategoryResult(i, ann) ==
    CASE Keys[i] = "text"   -> Slice(ann, MaxTextBlocks)
      [] Keys[i] = "colors" -> DominantColors(ann)
      [] OTHER              -> ann

KeyIndex(k) == CHOOSE i \in 1..Len(Keys) : Keys[i] = k

\* results = {"labels": ..., "text": ..., "faces": ..., "logos": ..., "colors": ...}
ExtractResults(resps) ==
    Dict([k \in {Keys[i] : i \in 1..Len(Keys)} |->
            CategoryResult(KeyIndex(k), resps[KeyIndex(k)].ann)])

\* mutant: the handler returns the categories detected so far
ExceptReturnPartial(resps) ==
    Dict([k \in {Keys[i] : i \in {j \in 1..Len(Keys) : resps[j].t = "resp"}} |->
            CategoryResult(KeyIndex(k), resps[KeyIndex(k)].ann)])

\* except Exception as e: ... return None
ExceptReturn(resps) == NoneV

\* vision_client.<detection>(image=image) returns
DetectionReturns(i) ==
    /\ pc = DetectionPc[i]
    /\ \E ann \in Annotations(i) :
        responses' = [responses EXCEPT ![i] = Resp(ann)]
    /\ calls' = [calls EXCEPT ![Detections[i]] = @ + 1]
    /\ pc' = IF i < Len(Detections) THEN DetectionPc[i + 1] ELSE "v_extract"
    /\ UNCHANGED <<Credentials, uploaded_file, results, MainResults, page>>

label_detection == DetectionReturns(1)
text_detection == DetectionReturns(2)
face_detection == DetectionReturns(3)
logo_detection == DetectionReturns(4)
image_properties == DetectionReturns(5)

\* results = {...}
extract_results ==
    /\ pc = "v_extract"
    /\ results' = ExtractResults(responses)
    /\ pc' = "v_return"
    /\ UNCHANGED <<Credentials, uploaded_file, responses, MainResults,
                   page, calls>>

\* return results
analyze_with_vision_returns ==
    /\ pc = "v_return"
    /\ vision_results' = results
    /\ responses' = NoResponses
    /\ results' = NoneV
    /\ pc' = "openai"
    /\ UNCHANGED <<Credentials, uploaded_file, openai_description,
                   detailed_prompt, page, calls>>

\* mutant: a failed feature detection ends the analysis
analyze_with_vision_except_short_circuit ==
    \E i \in 1..Len(Detections) :
        /\ pc = DetectionPc[i]
        /\ calls' = [calls EXCEPT ![Detections[i]] = @ + 1]
        /\ page' = Append(page, Element("error", [src |-> "vision", at |-> Detections[i]]))
        /\ vision_results' = ExceptReturn(responses)
        /\ responses' = NoResponses
        /\ pc' = "end"
        /\ UNCHANGED <<Credentials, uploaded_file, results,
                       openai_description, detailed_prompt>>

\* a detection call raises: st.error(...), return None
analyze_with_vision_except ==
    \E i \in 1..Len(Detections) :
        /\ pc = DetectionPc[i]
        /\ calls' = [calls EXCEPT ![Detections[i]] = @ + 1]
        /\ page' = Append(page, Element("error", [src |-> "vision", at |-> Detections[i]]))
        /\ vision_results' = ExceptReturn(responses)
        /\ responses' = NoResponses
        /\ pc' = "openai"
        /\ UNCHANGED <<Credentials, uploaded_file, results,
                       openai_description, detailed_prompt>>

-----------------------------------------------------------------------------
(* analyze_with_openai                                                     *)

\* texts the description backend can return
Descriptions == {"", "a thumbnail"}

\* encode_image and the chat completion return: the content is returned as is
analyze_with_openai_returns ==
    /\ pc = "openai"
    /\ \E content \in Descriptions : openai_description' = Str(content)
    /\ calls' = [calls EXCEPT !["describe"] = @ + 1]
    /\ pc' = "show"
    /\ UNCHANGED <<Credentials, uploaded_file, Locals, vision_results,
                   detailed_prompt, page>>

\* mutant: the error of the description call is not caught
analyze_with_openai_except_uncaught ==
    /\ pc = "openai"
    /\ calls' = [calls EXCEPT !["describe"] = @ + 1]
    /\ pc' = "aborted"
    /\ UNCHANGED <<Credentials, uploaded_file, Locals, MainResults, page>>

\* except Exception as e: st.error(...), return None
analyze_with_openai_except ==
    /\ pc = "openai"
    /\ calls' = [calls EXCEPT !["describe"] = @ + 1]
    /\ page' = Append(page, Element("error", [src |-> "openai"]))
    /\ openai_description' = NoneV
    /\ pc' = "show"
    /\ UNCHANGED <<Credentials, uploaded_file, Locals, vision_results,
                   detailed_prompt>>

-----------------------------------------------------------------------------
(* main, after the analysis                                                *)

\* mutant: the raw results are rendered only with the report
show_raw_results_with_report ==
    /\ pc = "show"
    /\ pc' = "decide"
    /\ UNCHANGED <<Credentials, uploaded_file, Locals, MainResults,
                   page, calls>>

\* st.json(vision_results), st.write(openai_description) in the expanders
show_raw_results ==
    /\ pc = "show"
    /\ page' = page \o <<Element("json", vision_results),
                         Element("write", openai_description)>>
    /\ pc' = "decide"
    /\ UNCHANGED <<Credentials, uploaded_file, Locals, MainResults, calls>>

\* mutant: the prompt is generated without a condition
ShouldSynthesizeAlways(vr, desc) == TRUE

\* mutant: one analysis is enough
ShouldSynthesizeEither(vr, desc) == Truthy(vr) \/ Truthy(desc)

\* if vision_results and openai_description:
ShouldSynthesize(vr, desc) == Truthy(vr) /\ Truthy(desc)

\* mutant: the prompt is generated as soon as one analysis is there
decide_synthesis_eager ==
    /\ pc \in {"openai", "decide"}
    /\ IF Truthy(vision_results) \/ Truthy(openai_description)
          THEN /\ page' = Append(page, Element("subheader", [src |-> "analysis"]))
               /\ pc' = "synth"
          ELSE /\ page' = page
               /\ pc' = IF pc = "decide" THEN "end" ELSE pc
    /\ UNCHANGED <<Credentials, uploaded_file, Locals, MainResults, calls>>

\* the condition of the generation, st.subheader
decide_synthesis ==
    /\ pc = "decide"
    /\ IF ShouldSynthesize(vision_results, openai_description)
          THEN /\ page' = Append(page, Element("subheader", [src |-> "analysis"]))
               /\ pc' = "synth"
          ELSE /\ page' = page
               /\ pc' = "end"
    /\ UNCHANGED <<Credentials, uploaded_file, Locals, MainResults, calls>>

\* texts the synthesis backend can return
Reports == {"", "a report"}

\* generate_prompt: the chat completion returns, the content is returned as is
generate_prompt_returns ==
    /\ pc = "synth"
    /\ \E content \in Reports : detailed_prompt' = Str(content)
    /\ calls' = [calls EXCEPT !["synthesize"] = @ + 1]
    /\ pc' = "render"
    /\ UNCHANGED <<Credentials, uploaded_file, Locals, vision_results,
                   openai_description, page>>

\* generate_prompt: except Exception as e: st.error(...), return None
generate_prompt_except ==
    /\ pc = "synth"
    /\ calls' = [calls EXCEPT !["synthesize"] = @ + 1]
    /\ page' = Append(page, Element("error", [src |-> "synthesis"]))
    /\ detailed_prompt' = NoneV
    /\ pc' = "render"
    /\ UNCHANGED <<Credentials, uploaded_file, Locals, vision_results,
                   openai_description>>

\* if detailed_prompt: st.markdown(...), st.download_button(...)
render_prompt ==
    /\ pc = "render"
    /\ page' = IF Truthy(detailed_prompt)
                  THEN page \o <<Element("markdown", detailed_prompt),
                                 Element("download_button", detailed_prompt)>>
                  ELSE page
    /\ pc' = "end"
    /\ UNCHANGED <<Credentials, uploaded_file, Locals, MainResults, calls>>

-----------------------------------------------------------------------------
Next ==
    \/ setup_credentials_returns
    \/ setup_credentials_raises
    \/ file_uploader
    \/ open_image_returns
    \/ open_image_raises
    \/ check_client
    \/ label_detection
    \/ text_detection
    \/ face_detection
    \/ logo_detection
    \/ image_properties
    \/ extract_results
    \/ analyze_with_vision_returns
    \/ analyze_with_vision_except
    \/ analyze_with_openai_returns
    \/ analyze_with_openai_except
    \/ show_raw_results
    \/ decide_synthesis
    \/ generate_prompt_returns
    \/ generate_prompt_except
    \/ render_prompt

Spec == Init /\ [][Next]_vars

\* the script is straight-line code: a statement that can run does run
FairSpec == Spec /\ WF_vars(Next)

-----------------------------------------------------------------------------
(* Vocabulary of the orchestrator's states.                                *)

VisionSucceeded == vision_results.t = "dict"
VisionFailed == ErrorShown("vision")
VisionSettled == VisionSucceeded \/ VisionFailed

DescribeFailed == ErrorShown("openai")
DescribeSucceeded == calls["describe"] >= 1 /\ ~DescribeFailed /\ pc # "aborted"
DescribeSettled == DescribeSucceeded \/ DescribeFailed

SynthesisFailed == ErrorShown("synthesis")

Stage1Started == calls["label_detection"] >= 1

Terminal == pc = "end"
Done == Terminal /\ Shown("markdown")
Failed == Terminal /\ ~Shown("markdown") /\ Shown("error")

TotalAnalysisFailure == Failed /\ VisionFailed /\ DescribeFailed
SynthesisFailure == Failed /\ SynthesisFailed

KeySet == {Keys[i] : i \in 1..Len(Keys)}

-----------------------------------------------------------------------------
(* C1: whenever both the feature-detection call and the description call   *)
(* have failed, the synthesis backend has received no call, the script is  *)
(* past the analysis and never in the synthesis, no report is rendered,    *)
(* and the finished run is a total analysis failure.                       *)
C1_TotalFailureSkipsSynthesis ==
    (VisionFailed /\ DescribeFailed) =>
        /\ calls["synthesize"] = 0
        /\ pc \in {"show", "decide", "end"}
        /\ ~Shown("subheader") /\ ~Shown("markdown")
        /\ pc = "end" => TotalAnalysisFailure

C1_Witness ==
    pc = "end" /\ VisionFailed /\ DescribeFailed /\ calls["synthesize"] = 0

(* C2, as stated: a finished run in which exactly one of the two stage-1   *)
(* calls succeeded has invoked the synthesis.                              *)
ExactlyOneStage1Succeeded ==
    \/ VisionSucceeded /\ DescribeFailed
    \/ VisionFailed /\ DescribeSucceeded

C3_BothStage1CallsSettle ==
    /\ (Stage1Started /\ pc \in {"show", "decide", "synth", "render", "end"}) =>
        /\ VisionSettled
        /\ calls["describe"] = 1
        /\ DescribeSettled
    /\ pc = "openai" => VisionSettled
    /\ Stage1Started => pc # "aborted"

C3_Witness ==
    pc = "decide" /\ VisionFailed /\ DescribeSucceeded /\ calls["describe"] = 1

(* C4: the synthesis call is issued, and the script is at the synthesis    *)
(* call, only when the feature detection and the description call have     *)
(* both been issued and have both settled.                                 *)
C4_SynthesisAfterJoin ==
    (calls["synthesize"] >= 1 \/ pc = "synth") =>
        /\ VisionSettled
        /\ DescribeSettled
        /\ calls["describe"] = 1

C4_Witness ==
    calls["synthesize"] = 1 /\ pc = "render"

C6_SynthesisFailureKeepsStage1 ==
    SynthesisFailed =>
        /\ pc \in {"render", "end"}
        /\ detailed_prompt = NoneV
        /\ ~Shown("markdown")
        /\ VisionSucceeded /\ Truthy(openai_description)
        /\ ShownWith("json", vision_results)
        /\ ShownWith("write", openai_description)
        /\ pc = "end" => SynthesisFailure

C6_Witness ==
    pc = "end" /\ SynthesisFailed /\ ShownWith("json", vision_results)

(* C7, as stated: the dominant-color list of the results has at most 5     *)
(* entries and is sorted by descending score, equal scores in the order of *)
(* the backend's list.                                                     *)
SortedByScore(list) ==
    \A i, j \in 1..Len(list) :
        i < j => \/ list[i].score > list[j].score
                 \/ list[i].score = list[j].score /\ list[i].color < list[j].color

BackendColors == responses[5].ann

C8_AllOrNothing ==
    /\ \A r \in {results, vision_results} :
        r.t = "dict" =>
            /\ DOMAIN r.d = KeySet
            /\ \A i \in 1..Len(Detections) : calls[Detections[i]] = 1
            /\ ~VisionFailed
    /\ VisionFailed => vision_results = NoneV /\ results = NoneV

C8_Witness ==
    /\ VisionFailed
    /\ calls["logo_detection"] = 1 /\ calls["image_properties"] = 0
    /\ vision_results = NoneV
    /\ pc = "show"

(* C9: a finished run in which the feature detection and the description   *)
(* call both returned without error has invoked the synthesis, whatever    *)
(* the content that was returned.                                          *)
C9_SuccessIgnoresContent ==
    (pc = "end" /\ VisionSucceeded /\ DescribeSucceeded) => calls["synthesize"] = 1

(* C10: when the construction of the feature-detection client failed, no   *)
(* backend receives a call, the only errors on the page are the credential *)
(* errors, and a run with an uploaded image ends with the error of the     *)
(* missing client.                                                         *)
C10_NoClientNoCalls ==
    vision_client = "None" =>
        /\ \A b \in Backends : calls[b] = 0
        /\ pc \in {"uploader", "open", "check_client", "end", "aborted"}
        /\ \A i \in 1..Len(page) :
            page[i].kind = "error" => page[i].body.src \in {"credentials", "client"}
        /\ (pc = "end" /\ uploaded_file = "image") => ErrorShown("client")

C10_Witness ==
    vision_client = "None" /\ pc = "end" /\ uploaded_file = "image"
        /\ ErrorShown("client")

====
